---- MODULE Spec2Model ----
(***************************************************************************)
(* Crossref Preprint Servers - Metadata Collector                          *)
(* (streamlit_crossref_preprints_app.py).                                  *)
(*                                                                         *)
(* The module holds one state machine per unit of the program:             *)
(*   SpecApi     one call of api_get, one HTTP attempt per step;           *)
(*   SpecResolve the Resolve button handler, which runs                    *)
(*               resolve_candidates_for_server once per input row;         *)
(*   SpecSample  one call of sample_preprints;                             *)
(*   SpecBuild   the Build ZIP button handler around build_zip_crossref;   *)
(*   SpecUi      the script runs started by Resolve and by the candidate   *)
(*               chooser's multiselects and buttons.                       *)
(* The upstream registry is the environment: every response is a           *)
(* nondeterministic choice.                                                *)
(***************************************************************************)
EXTENDS Integers, Sequences, FiniteSets, TLC

VARIABLES
    \* ---- api_get (one call) ----
    max_retries,     \* parameter max_retries
    sleep_s,         \* parameter sleep_s, in tenths of a second
    responses,       \* status codes of the responses received so far (r, per iteration)
    backoff_sleeps,  \* number of time.sleep(backoff) calls made
    polite_sleeps,   \* number of time.sleep(sleep_s) calls made
    api_pc,          \* "idle" | "loop" | "returned" | "raised"
    \* ---- inputs and session state ----
    input_rows,      \* the server rows after de-duplication by server_name
    per_title,       \* slider "Max title-based candidates per title variant"
    cr_candidates,   \* st.session_state.cr_candidates: server_name -> candidates
    cr_selected,     \* st.session_state.cr_selected: server_name -> (strategy, id) pairs
    sel_widgets,     \* st.session_state["sel_<name>"]: the multiselects as last rendered
    ui_last,         \* the UI action of the last script run, "none" before any
    \* ---- Resolve handler and resolve_candidates_for_server ----
    resolve_pc,      \* "idle" | "run" | "returned" | "raised" | "done"
    row_i,           \* i of enumerate(input_rows, start=1)
    step_k,          \* position in the lookups of the current resolver call
    seen,            \* seen of resolve_candidates_for_server
    candidates,      \* candidates of resolve_candidates_for_server
    failed,          \* sub-lookups of the current resolver call that raised
    queried,         \* the strategy calls the current resolver call has made, in order
    raised_rows,     \* names of the rows whose resolver call raised
    \* ---- sidebar options used by the sampler and the build ----
    sample_n,        \* "Sample N preprints per selected server" (n of sample_preprints)
    sort_mode,       \* "latest" | "most-cited" | "random"
    date_from,       \* from-pub-date text
    date_to,         \* until-pub-date text
    \* ---- sample_preprints (one call) ----
    sample_cand,     \* parameter candidate
    sample_pc,       \* "idle" | "call" | "returned" | "raised"
    works,           \* the list the call returned
    pool,            \* items of the response the call received
    requests,        \* the sampler's api_get calls, each with the server it served
    \* ---- Build ZIP handler and build_zip_crossref ----
    build_pc,        \* "idle" | "loop" | "raised" | "returned" | "failed"
    row_b,           \* position of the loop over original_rows
    pair_b,          \* position of the loop over chosen_pairs
    strategies,      \* strategies
    ids,             \* ids
    total_estimate,  \* total_estimate
    sample_saved,    \* sample_saved
    servers_rows,    \* servers_rows
    zf,              \* names of the entries written to the archive, in order
    zf_closed,       \* zf.close() was executed
    zip_bytes,       \* the bytes handed to the caller (entry names), <<>> if none
    download_offered,\* st.download_button for the ZIP was rendered
    sample_failed    \* a sample_preprints call of this build raised

apiVars == <<max_retries, sleep_s, responses, backoff_sleeps, polite_sleeps, api_pc>>

sessionVars == <<input_rows, per_title, cr_candidates, cr_selected, sel_widgets, ui_last>>

resolveVars == <<resolve_pc, row_i, step_k, seen, candidates, failed, queried, raised_rows>>

optionVars == <<sample_n, sort_mode, date_from, date_to>>

sampleVars == <<sample_cand, sample_pc, works, pool, requests>>

buildVars == <<build_pc, row_b, pair_b, strategies, ids, total_estimate, sample_saved,
               servers_rows, zf, zf_closed, zip_bytes, download_offered, sample_failed>>

vars == <<apiVars, sessionVars, resolveVars, optionVars, sampleVars, buildVars>>

(***************************************************************************)
(* Small helpers                                                           *)
(***************************************************************************)
Last(s) == s[Len(s)]

Range(s) == {s[i] : i \in DOMAIN s}

Min(a, b) == IF a < b THEN a ELSE b

Max(a, b) == IF a > b THEN a ELSE b

\* s[:k] of Python for k >= 0
Take(s, k) == SubSeq(s, 1, Min(k, Len(s)))

(***************************************************************************)
(* Parts of the state a specification does not use stay as follows         *)
(***************************************************************************)
EmptyDict == <<>>

SessionIdle ==
    /\ input_rows = <<>>
    /\ per_title = 0
    /\ cr_candidates = EmptyDict
    /\ cr_selected = EmptyDict
    /\ sel_widgets = EmptyDict
    /\ ui_last = "none"

ResolveIdle ==
    /\ resolve_pc = "idle"
    /\ row_i = 0
    /\ step_k = 0
    /\ seen = {}
    /\ candidates = <<>>
    /\ failed = {}
    /\ queried = <<>>
    /\ raised_rows = {}

OptionsIdle ==
    /\ sample_n = 0
    /\ sort_mode = "latest"
    /\ date_from = <<>>
    /\ date_to = <<>>

SampleIdle ==
    /\ sample_cand = <<>>
    /\ sample_pc = "idle"
    /\ works = <<>>
    /\ pool = <<>>
    /\ requests = <<>>

BuildIdle ==
    /\ build_pc = "idle"
    /\ row_b = 0
    /\ pair_b = 0
    /\ strategies = <<>>
    /\ ids = <<>>
    /\ total_estimate = 0
    /\ sample_saved = 0
    /\ servers_rows = <<>>
    /\ zf = <<>>
    /\ zf_closed = FALSE
    /\ zip_bytes = <<>>
    /\ download_offered = FALSE
    /\ sample_failed = FALSE

(***************************************************************************)
(* api_get                                                                 *)
(***************************************************************************)
\* default of the max_retries parameter
DefaultMaxRetries == 5

\* status codes the registry may answer with
Statuses == {200, 204, 400, 404, 429, 500, 501, 502, 503, 504}

\* the slider values of "Sleep between API calls", in tenths of a second
SleepChoices == {0, 5}

\* r.status_code in (429, 500, 502, 503, 504)
IsTransientRetryAll(s) == s >= 400

IsTransient(s) == s \in {429, 500, 502, 503, 504}

\* requests.Response.raise_for_status raises for 4xx and 5xx
RaisesForStatus(s) == s >= 400 /\ s < 600

\* for _ in range(max_retries): one more iteration is left
LoopContinuesOffByOne(done, limit) == done <= limit

LoopContinues(done, limit) == done < limit

ApiIdle ==
    /\ max_retries = 0
    /\ sleep_s = 0
    /\ responses = <<>>
    /\ backoff_sleeps = 0
    /\ polite_sleeps = 0
    /\ api_pc = "idle"

\* the call is entered: backoff = sleep_s, no request yet
InitApi ==
    /\ SessionIdle
    /\ ResolveIdle
    /\ OptionsIdle
    /\ SampleIdle
    /\ BuildIdle
    /\ max_retries \in 0..DefaultMaxRetries
    /\ sleep_s \in SleepChoices
    /\ responses = <<>>
    /\ backoff_sleeps = 0
    /\ polite_sleeps = 0
    /\ api_pc = "loop"

\* one iteration answered with 200: polite sleep, return r
ApiGetOk ==
    /\ api_pc = "loop"
    /\ LoopContinues(Len(responses), max_retries)
    /\ responses' = Append(responses, 200)
    /\ polite_sleeps' = IF sleep_s > 0 THEN polite_sleeps + 1 ELSE polite_sleeps
    /\ api_pc' = "returned"
    /\ UNCHANGED <<max_retries, sleep_s, backoff_sleeps, sessionVars, resolveVars, optionVars, sampleVars, buildVars>>

\* one iteration answered with a transient status: sleep(backoff), continue
ApiGetTransient ==
    /\ api_pc = "loop"
    /\ LoopContinues(Len(responses), max_retries)
    /\ \E s \in Statuses \ {200} :
        /\ IsTransient(s)
        /\ responses' = Append(responses, s)
    /\ backoff_sleeps' = backoff_sleeps + 1
    /\ UNCHANGED <<max_retries, sleep_s, polite_sleeps, api_pc, sessionVars, resolveVars, optionVars, sampleVars, buildVars>>

\* one iteration answered with any other status: r.raise_for_status(), which
\* raises for 4xx/5xx and otherwise falls through to the next iteration
ApiGetOther ==
    /\ api_pc = "loop"
    /\ LoopContinues(Len(responses), max_retries)
    /\ \E s \in Statuses \ {200} :
        /\ ~IsTransient(s)
        /\ responses' = Append(responses, s)
        /\ api_pc' = IF RaisesForStatus(s) THEN "raised" ELSE "loop"
    /\ UNCHANGED <<max_retries, sleep_s, backoff_sleeps, polite_sleeps, sessionVars, resolveVars, optionVars, sampleVars, buildVars>>

\* the loop ran out: r.raise_for_status(); return r.  With max_retries = 0
\* the name r is unbound and the statement raises UnboundLocalError.
ApiGetExhausted ==
    /\ api_pc = "loop"
    /\ ~LoopContinues(Len(responses), max_retries)
    /\ api_pc' = IF responses = <<>> THEN "raised"
                 ELSE IF RaisesForStatus(Last(responses)) THEN "raised"
                 ELSE "returned"
    /\ UNCHANGED <<max_retries, sleep_s, responses, backoff_sleeps, polite_sleeps, sessionVars, resolveVars, optionVars, sampleVars, buildVars>>

NextApi == ApiGetOk \/ ApiGetTransient \/ ApiGetOther \/ ApiGetExhausted

SpecApi == InitApi /\ [][NextApi]_vars

(***************************************************************************)
(* Claims on api_get                                                       *)
(***************************************************************************)
TransientCodes == {429, 500, 502, 503, 504}

TransientCount == Cardinality({i \in DOMAIN responses : responses[i] \in TransientCodes})

AllTransient == \A i \in DOMAIN responses : responses[i] \in TransientCodes

Permanent4xx == {s \in Statuses : s >= 400 /\ s < 500 /\ s # 429}

\* C8: every transient response (429, 500, 502, 503, 504) is followed by one
\* backoff wait; a call never issues more than max_retries requests; and a
\* call whose every attempt was answered with a transient status does not
\* return a response: once the budget is used up it has raised.
C8_RetryBudget ==
    /\ Len(responses) <= max_retries
    /\ backoff_sleeps = TransientCount
    /\ (AllTransient => api_pc # "returned")
    /\ (AllTransient /\ api_pc = "loop" /\ Len(responses) = max_retries
            => ENABLED ApiGetExhausted)
    /\ (AllTransient /\ api_pc = "raised" => Len(responses) = max_retries)

\* C8 witness: the whole default budget was spent on transient answers and
\* the call ended by raising.
C8_Witness ==
    /\ api_pc = "raised"
    /\ max_retries = DefaultMaxRetries
    /\ Len(responses) = DefaultMaxRetries
    /\ AllTransient
    /\ backoff_sleeps = DefaultMaxRetries

\* C9: a permanent 4xx answer (not 429) is the last response of its call:
\* the call has raised with it, no request follows it and no backoff wait
\* was made for it (the waits made are exactly those of the transient
\* answers before it).
C9_PermanentRaisesAtOnce ==
    \A i \in DOMAIN responses :
        responses[i] \in Permanent4xx =>
            /\ i = Len(responses)
            /\ api_pc = "raised"
            /\ backoff_sleeps = Cardinality({j \in 1..(i - 1) : responses[j] \in TransientCodes})
            /\ polite_sleeps = 0

\* C9 witness: a 404 right after a transient answer ended the call.
C9_Witness ==
    /\ Len(responses) = 2
    /\ responses[1] = 503
    /\ responses[2] = 404
    /\ api_pc = "raised"
    /\ max_retries = DefaultMaxRetries

\* C15 (as claimed): whenever api_get has returned a response, that response
\* has status 200.
C15_ReturnsOnly200 ==
    api_pc = "returned" => (responses # <<>> /\ Last(responses) = 200)

(***************************************************************************)
(* Strings.  A string is the sequence of its tokens: words, and " " for a  *)
(* run of whitespace.  A normalised string holds words only (they are      *)
(* joined by single blanks); <<>> is the empty string.                     *)
(***************************************************************************)
\* norm: " ".join((s or "").strip().split())
norm(s) == SelectSeq(s, LAMBDA t : t # " ")

\* safe_list, of a field given as its parts between the ";" separators
safe_list(s) ==
    LET parts == [i \in DOMAIN s |-> norm(s[i])]
    IN  SelectSeq(parts, LAMBDA q : q # <<>>)

(***************************************************************************)
(* Input rows                                                              *)
(***************************************************************************)
\* number of rows typed or uploaded
MaxRows == 2

\* a CSV row with every optional column empty
CsvRow(name) ==
    [server_name |-> name, issn_l |-> <<>>, issn_print |-> <<>>,
     issn_electronic |-> <<>>, doi_prefixes |-> <<>>, crossref_member_id |-> <<>>,
     title_exact |-> <<>>, title_variants |-> <<>>, notes |-> <<>>]

\* a pasted line: name = norm(line), title_exact = name
PastedRow(line) == [CsvRow(norm(line)) EXCEPT !.title_exact = norm(line)]

RowBio ==
    [CsvRow(<<"bioRxiv">>) EXCEPT !.doi_prefixes = << <<"10.1101">> >>,
                                  !.title_exact = <<"bioRxiv">>]

RowMed ==
    [CsvRow(<<"medRxiv">>) EXCEPT !.doi_prefixes = << <<"10.1101">> >>,
                                  !.title_exact = <<"medRxiv">>]

RowBioAgain == [CsvRow(<<"bioRxiv">>) EXCEPT !.crossref_member_id = <<"246">>]

RowPasted == PastedRow(<<" ", "arXiv">>)

RowBlankName == CsvRow(<<" ">>)

\* a CSV row whose name differs from bioRxiv by case only
RowBioLower == [CsvRow(<<"biorxiv">>) EXCEPT !.doi_prefixes = << <<"10.1101">> >>]

\* a row that names a print and an electronic ISSN
RowIssns ==
    [CsvRow(<<"ChemRxiv">>) EXCEPT !.issn_print = << <<"2573-2293">> >>,
                                   !.issn_electronic = << <<"2573-2307">> >>]

RowNoName == CsvRow(<<>>)

\* a row that uses every strategy: the same ISSN twice, an empty part, a
\* title variant equal to the name
RowAll ==
    [CsvRow(<<"Research", " ", "Square">>) EXCEPT
        !.issn_l = << <<"2693-5015">> >>,
        !.issn_electronic = << <<>>, <<" ", "2693-5015">> >>,
        !.doi_prefixes = << <<"10.21203">> >>,
        !.crossref_member_id = <<"8761", " ">>,
        !.title_variants = << <<"Research", " ", " ", "Square">>, <<" ">> >>]

BatchRows == {RowBio, RowMed, RowBioAgain, RowPasted, RowBlankName, RowNoName}

RECURSIVE dedup_rows(_, _)
\* de-dup by server_name while preserving order
dedup_rows(rows, seen_names) ==
    IF rows = <<>> THEN <<>>
    ELSE LET nm == Head(rows).server_name
         IN  IF nm # <<>> /\ nm \notin seen_names
             THEN <<Head(rows)>> \o dedup_rows(Tail(rows), seen_names \cup {nm})
             ELSE dedup_rows(Tail(rows), seen_names)

RawInputs ==
    {<<RowAll>>} \cup UNION {[1..n -> BatchRows] : n \in 1..MaxRows}

\* slider range of per_title
MaxPerTitle == 5

ServerNames == {input_rows[i].server_name : i \in DOMAIN input_rows}

(***************************************************************************)
(* The registry, as the resolver sees it.  api_get(...).json() either      *)
(* raises (ok = FALSE) or yields a document.                               *)
(***************************************************************************)
\* largest total-results value the registry reports
MaxTotal == 1

TotalResponses ==
    {[ok |-> FALSE, total |-> 0]} \cup {[ok |-> TRUE, total |-> t] : t \in 0..MaxTotal}

\* /journals/{issn}: the message, "{}" when it is missing or empty
JournalLookupResponses ==
    {[ok |-> FALSE, message |-> "{}"], [ok |-> TRUE, message |-> "{}"],
     [ok |-> TRUE, message |-> "journal"]}

\* /members/{id}
MemberLookupResponses == {[ok |-> FALSE], [ok |-> TRUE]}

JournalA == [doc |-> "journalA", ISSN |-> << <<"2692-8205">> >>]

JournalB == [doc |-> "journalB",
             ISSN |-> << <<"2693-5015">>, <<"2693-5015">>, <<"2692-8205">> >>]

JournalNoIssn == [doc |-> "journalC", ISSN |-> <<>>]

\* /journals?query=title&rows=5: the items the registry may list for a title
JournalSearchResponses(title) ==
    {[ok |-> FALSE, items |-> <<>>], [ok |-> TRUE, items |-> <<>>]}
    \cup (IF title = <<"bioRxiv">>
          THEN {[ok |-> TRUE, items |-> <<JournalA>>]} ELSE {})
    \cup (IF title = <<"Research", "Square">>
          THEN {[ok |-> TRUE, items |-> <<JournalNoIssn, JournalB>>]} ELSE {})

(***************************************************************************)
(* Resolution strategies.  Each yields [raised, out, failed, ct]: whether   *)
(* the call raised, the candidates it returned, the sub-lookups that       *)
(* failed, and the total-results the container-title search reported (0    *)
(* when there was no such search or it failed).                            *)
(***************************************************************************)
Cand(strategy, id, total, meta) ==
    [strategy |-> strategy, id |-> id, estimate_total |-> total, journal_meta |-> meta]

resolve_by_issn(issn, jr, tr) ==
    IF ~jr.ok THEN [raised |-> FALSE, out |-> <<>>, failed |-> {"journal-lookup"}, ct |-> 0]
    ELSE IF ~tr.ok THEN [raised |-> TRUE, out |-> <<>>, failed |-> {"issn-total"}, ct |-> 0]
    ELSE [raised |-> FALSE, out |-> <<Cand("issn", issn, tr.total, jr.message)>>,
          failed |-> {}, ct |-> 0]

resolve_by_prefix(prefix, tr) ==
    IF ~tr.ok THEN [raised |-> TRUE, out |-> <<>>, failed |-> {"prefix-total"}, ct |-> 0]
    ELSE [raised |-> FALSE, out |-> <<Cand("prefix", prefix, tr.total, "none")>>,
          failed |-> {}, ct |-> 0]

resolve_by_member(member_id, mr, tr) ==
    LET f == IF mr.ok THEN {} ELSE {"member-lookup"}
    IN  IF ~tr.ok THEN [raised |-> TRUE, out |-> <<>>, failed |-> f \cup {"member-total"},
                        ct |-> 0]
        ELSE [raised |-> FALSE, out |-> <<Cand("member", member_id, tr.total, "none")>>,
              failed |-> f, ct |-> 0]

RECURSIVE FlattenIssns(_)
\* for j in items: for issn in issns[:2]
FlattenIssns(items) ==
    IF items = <<>> THEN <<>>
    ELSE LET j == Head(items)
             two == Take(j.ISSN, 2)
         IN  [i \in DOMAIN two |-> [issn |-> two[i], doc |-> j.doc]]
             \o FlattenIssns(Tail(items))

\* js: the journal search; got: how many of the per-ISSN totals were read
\* before one failed (all of them when none failed); tt: those totals;
\* ct: the container-title works search
resolve_by_title(title, js, got, tt, ct) ==
    LET flat == IF js.ok THEN FlattenIssns(js.items) ELSE <<>>
        fromJournals ==
            [i \in 1..got |-> Cand("title->issn", flat[i].issn, tt[i], flat[i].doc)]
        fromWorks ==
            IF ct.ok /\ ct.total > 0
            THEN <<Cand("container-title", title, ct.total, "none")>>
            ELSE <<>>
    IN  [raised |-> FALSE,
         out |-> fromJournals \o fromWorks,
         failed |-> (IF js.ok THEN {} ELSE {"journal-search"})
                    \cup (IF got < Len(flat) THEN {"title-total"} ELSE {})
                    \cup (IF ct.ok THEN {} ELSE {"container-title"}),
         ct |-> IF ct.ok THEN ct.total ELSE 0]

(***************************************************************************)
(* resolve_candidates_for_server                                           *)
(***************************************************************************)
\* add_cand without the seen test
add_cand_no_seen(fr, c) ==
    IF c = <<>> THEN fr
    ELSE [seen |-> fr.seen \cup {<<c[1].strategy, c[1].id>>},
          candidates |-> Append(fr.candidates, c[1])]

\* add_cand; c is <<>> for None and <<candidate>> otherwise
add_cand(fr, c) ==
    IF c = <<>> THEN fr
    ELSE LET key == <<c[1].strategy, c[1].id>>
         IN  IF key \in fr.seen THEN fr
             ELSE [seen |-> fr.seen \cup {key},
                   candidates |-> Append(fr.candidates, c[1])]

RECURSIVE add_all(_, _)
\* for c in cs: add_cand(c)
add_all(fr, cs) ==
    IF cs = <<>> THEN fr ELSE add_all(add_cand(fr, <<Head(cs)>>), Tail(cs))

\* the lookups one resolver call makes, in order:
\* ISSNs, DOI prefixes, member, exact title, title variants
Lookups(row, pt) ==
    LET issns == safe_list(row.issn_l) \o safe_list(row.issn_print)
                 \o safe_list(row.issn_electronic)
        prefs == safe_list(row.doi_prefixes)
        member_id == norm(row.crossref_member_id)
        title_exact == IF norm(row.title_exact) # <<>> THEN norm(row.title_exact)
                       ELSE norm(row.server_name)
        variants == Take(safe_list(row.title_variants), pt)
    IN  [i \in DOMAIN issns |-> [strategy |-> "issn", arg |-> issns[i]]]
        \o [i \in DOMAIN prefs |-> [strategy |-> "prefix", arg |-> prefs[i]]]
        \o (IF member_id # <<>> THEN <<[strategy |-> "member", arg |-> member_id]>>
            ELSE <<>>)
        \o (IF title_exact # <<>> THEN <<[strategy |-> "title", arg |-> title_exact]>>
            ELSE <<>>)
        \o [i \in DOMAIN variants |-> [strategy |-> "title", arg |-> variants[i]]]

CurRow == input_rows[row_i]

CurLookups == Lookups(CurRow, per_title)

AtLookup(strategy) ==
    /\ resolve_pc = "run"
    /\ step_k <= Len(CurLookups)
    /\ CurLookups[step_k].strategy = strategy

\* the effect of one strategy call on the resolver call
AfterLookup(res, kept) ==
    /\ failed' = failed \cup res.failed
    /\ queried' = Append(queried, [strategy |-> CurLookups[step_k].strategy,
                                    arg |-> CurLookups[step_k].arg, ct |-> res.ct])
    /\ IF res.raised
       THEN /\ resolve_pc' = "raised"
            /\ UNCHANGED <<seen, candidates, step_k>>
       ELSE LET fr == add_all([seen |-> seen, candidates |-> candidates], kept)
            IN  /\ seen' = fr.seen
                /\ candidates' = fr.candidates
                /\ step_k' = step_k + 1
                /\ resolve_pc' = "run"
    /\ UNCHANGED <<row_i, raised_rows, sessionVars, apiVars, optionVars, sampleVars, buildVars>>

\* every way one lookup can end, given the registry's answers; kept is what
\* the resolver hands to add_cand (title results are cut to [:per_title])
LookupOutcomes(item, pt) ==
    IF item.strategy = "issn" THEN
        {resolve_by_issn(item.arg, jr, tr) :
            jr \in JournalLookupResponses, tr \in TotalResponses}
    ELSE IF item.strategy = "prefix" THEN
        {resolve_by_prefix(item.arg, tr) : tr \in TotalResponses}
    ELSE IF item.strategy = "member" THEN
        {resolve_by_member(item.arg, mr, tr) :
            mr \in MemberLookupResponses, tr \in TotalResponses}
    ELSE
        UNION {UNION {{LET res == resolve_by_title(item.arg, js, got, tt, ct)
                       IN  [res EXCEPT !.out = Take(res.out, pt)] :
                            tt \in [1..got -> 0..MaxTotal], ct \in TotalResponses} :
                      got \in 0..Len(FlattenIssns(js.items))} :
               js \in JournalSearchResponses(item.arg)}

StepIssn ==
    /\ AtLookup("issn")
    /\ \E res \in LookupOutcomes(CurLookups[step_k], per_title) : AfterLookup(res, res.out)

StepPrefix ==
    /\ AtLookup("prefix")
    /\ \E res \in LookupOutcomes(CurLookups[step_k], per_title) : AfterLookup(res, res.out)

StepMember ==
    /\ AtLookup("member")
    /\ \E res \in LookupOutcomes(CurLookups[step_k], per_title) : AfterLookup(res, res.out)

StepTitle ==
    /\ AtLookup("title")
    /\ \E res \in LookupOutcomes(CurLookups[step_k], per_title) : AfterLookup(res, res.out)

\* return candidates
ResolverReturn ==
    /\ resolve_pc = "run"
    /\ step_k > Len(CurLookups)
    /\ resolve_pc' = "returned"
    /\ UNCHANGED <<row_i, step_k, seen, candidates, failed, queried, raised_rows,
                   sessionVars, apiVars, optionVars, sampleVars, buildVars>>

(***************************************************************************)
(* The Resolve button                                                      *)
(***************************************************************************)
Put(dict, key, value) ==
    [n \in DOMAIN dict \cup {key} |-> IF n = key THEN value ELSE dict[n]]

NewResolverCall ==
    /\ step_k' = 1
    /\ seen' = {}
    /\ candidates' = <<>>
    /\ failed' = {}
    /\ queried' = <<>>

\* the click: both dictionaries are reset and the loop starts
ResolveBtn ==
    /\ resolve_pc \in {"idle", "done"}
    /\ input_rows # <<>>
    /\ cr_candidates' = EmptyDict
    /\ cr_selected' = EmptyDict
    /\ row_i' = 1
    /\ raised_rows' = {}
    /\ resolve_pc' = "run"
    /\ NewResolverCall
    /\ UNCHANGED <<input_rows, per_title, sel_widgets, ui_last, apiVars, optionVars,
                   sampleVars, buildVars>>

\* the loop moves to the next row, or ends
NextRow ==
    /\ row_i' = row_i + 1
    /\ resolve_pc' = IF row_i < Len(input_rows) THEN "run" ELSE "done"
    /\ NewResolverCall

\* the except branch that gives up on the remaining rows
HandlerExceptAbort ==
    /\ resolve_pc = "raised"
    /\ raised_rows' = raised_rows \cup {CurRow.server_name}
    /\ resolve_pc' = "done"
    /\ row_i' = Len(input_rows) + 1
    /\ NewResolverCall
    /\ UNCHANGED <<cr_candidates, cr_selected, input_rows, per_title, sel_widgets, ui_last,
                   apiVars, optionVars, sampleVars, buildVars>>

\* try branch: the call returned
HandlerStore ==
    /\ resolve_pc = "returned"
    /\ cr_candidates' = Put(cr_candidates, CurRow.server_name, candidates)
    /\ cr_selected' = Put(cr_selected, CurRow.server_name, <<>>)
    /\ NextRow
    /\ UNCHANGED <<raised_rows, input_rows, per_title, sel_widgets, ui_last, apiVars,
                   optionVars, sampleVars, buildVars>>

\* except branch: the call raised
HandlerExcept ==
    /\ resolve_pc = "raised"
    /\ cr_candidates' = Put(cr_candidates, CurRow.server_name, <<>>)
    /\ cr_selected' = Put(cr_selected, CurRow.server_name, <<>>)
    /\ raised_rows' = raised_rows \cup {CurRow.server_name}
    /\ NextRow
    /\ UNCHANGED <<input_rows, per_title, sel_widgets, ui_last, apiVars, optionVars,
                   sampleVars, buildVars>>

InitResolve ==
    /\ ApiIdle
    /\ ResolveIdle
    /\ OptionsIdle
    /\ SampleIdle
    /\ BuildIdle
    /\ input_rows \in {dedup_rows(raw, {}) : raw \in RawInputs} \ {<<>>}
    /\ per_title \in 0..MaxPerTitle
    /\ cr_candidates = EmptyDict
    /\ cr_selected = EmptyDict
    /\ sel_widgets = EmptyDict
    /\ ui_last = "none"

NextResolve ==
    \/ ResolveBtn
    \/ StepIssn
    \/ StepPrefix
    \/ StepMember
    \/ StepTitle
    \/ ResolverReturn
    \/ HandlerStore
    \/ HandlerExcept

SpecResolve == InitResolve /\ [][NextResolve]_vars

(***************************************************************************)
(* Claims on the resolver and the Resolve batch                            *)
(***************************************************************************)
Keys(cands) == [i \in DOMAIN cands |-> <<cands[i].strategy, cands[i].id>>]

NoDuplicateKeys(cands) ==
    \A i, j \in DOMAIN cands : Keys(cands)[i] = Keys(cands)[j] => i = j

\* C1: the list resolve_candidates_for_server builds and returns, and every
\* list stored in cr_candidates, holds no two candidates with the same
\* (strategy, id).
C1_CandidatesUnique ==
    /\ NoDuplicateKeys(candidates)
    /\ \A n \in DOMAIN cr_candidates : NoDuplicateKeys(cr_candidates[n])

\* C1 witness: the resolver returned for the row that names one ISSN twice
\* and one title twice; no sub-lookup failed, both ISSN lookups and both
\* title searches produced candidates, and each key is listed once.
C1_Witness ==
    /\ resolve_pc = "returned"
    /\ CurRow = RowAll
    /\ per_title = 2
    /\ failed = {}
    /\ Len(SelectSeq(CurLookups, LAMBDA w : w.strategy = "issn")) = 2
    /\ Len(SelectSeq(candidates, LAMBDA c : c.strategy = "issn")) = 1
    /\ Len(SelectSeq(candidates, LAMBDA c : c.strategy = "title->issn")) = 1
    /\ Len(candidates) = 4

\* C2 (as claimed): a failed sub-lookup never makes the resolver raise.
C2_SubLookupFailureSwallowed ==
    failed # {} => resolve_pc # "raised"

\* C4: when the Resolve action has completed, every input server name has
\* an entry in cr_candidates and in cr_selected, every selection is empty,
\* and a server whose resolver call raised has the empty candidate list.
C4_ResolveBatchCompletes ==
    resolve_pc = "done" =>
        /\ DOMAIN cr_candidates = ServerNames
        /\ DOMAIN cr_selected = ServerNames
        /\ \A n \in ServerNames : cr_selected[n] = <<>>
        /\ \A n \in raised_rows : cr_candidates[n] = <<>>

\* C4 witness: the batch completed, the first server's resolver call raised
\* and the second server was resolved to a non-empty candidate list.
C4_Witness ==
    /\ resolve_pc = "done"
    /\ Len(input_rows) = 2
    /\ raised_rows = {input_rows[1].server_name}
    /\ cr_candidates[input_rows[2].server_name] # <<>>

\* C12 (as claimed): with per_title >= 1, every title the resolver queried
\* whose container-title search reported total-results > 0 has its
\* ("container-title", title) candidate in the resolver's list.
C12_ContainerTitleKept ==
    per_title >= 1 =>
        \A k \in DOMAIN queried :
            (queried[k].strategy = "title" /\ queried[k].ct > 0) =>
                \E i \in DOMAIN candidates :
                    /\ candidates[i].strategy = "container-title"
                    /\ candidates[i].id = queried[k].arg

\* position of a candidate's strategy in the order ISSN, prefix, member, title
StrategyRank(strategy) ==
    CASE strategy = "issn" -> 1
      [] strategy = "prefix" -> 2
      [] strategy = "member" -> 3
      [] OTHER -> 4

\* the calls made so far are the first ones of the row's lookups, in order
QueriedInOrder ==
    /\ Len(queried) <= Len(CurLookups)
    /\ \A k \in DOMAIN queried :
        /\ queried[k].strategy = CurLookups[k].strategy
        /\ queried[k].arg = CurLookups[k].arg

CandidatesInStrategyOrder ==
    \A i, j \in DOMAIN candidates :
        i < j => StrategyRank(candidates[i].strategy) <= StrategyRank(candidates[j].strategy)

\* C13 (as claimed): the strategies are queried in the order ISSN, prefix,
\* member, title; a resolver call that has ended has queried every lookup of
\* its row, whatever the earlier ones produced; and the candidates are
\* listed in the order of the strategies.
C13_AllStrategiesInOrder ==
    resolve_pc \in {"run", "returned", "raised"} =>
        /\ QueriedInOrder
        /\ CandidatesInStrategyOrder
        /\ (resolve_pc \in {"returned", "raised"} => Len(queried) = Len(CurLookups))

\* C13, for the calls that return: every lookup of the row was made, in
\* order, and the returned list follows the order of the strategies.
C13_OrderWhenReturned ==
    resolve_pc \in {"run", "returned"} =>
        /\ QueriedInOrder
        /\ CandidatesInStrategyOrder
        /\ (resolve_pc = "returned" => Len(queried) = Len(CurLookups))

(***************************************************************************)
(* sample_preprints                                                        *)
(***************************************************************************)
\* largest "Sample N" tried
MaxN == 2

\* largest number of items the registry puts in one response
MaxPool == 3

SortModes == {"latest", "most-cited", "random"}

\* texts typed into the two date boxes
DateTexts == {<<>>, <<" ", "2020-01-01">>}

\* r.json() of the works query: raises, or lists items (named by their rank)
SampleResponses ==
    {[ok |-> FALSE, items |-> <<>>]}
    \cup {[ok |-> TRUE, items |-> [i \in 1..k |-> i]] : k \in 0..MaxPool}

\* the orders random.shuffle can leave a list in
Shuffles(items) ==
    {[i \in DOMAIN items |-> items[perm[i]]] : perm \in Permutations(DOMAIN items)}

\* largest value of the "Sample N" input
MaxSampleN == 50

\* the values of n tried: the small ones, one above them, and the largest
SampleNChoices == (-1..MaxN) \cup {MaxN + 1, MaxSampleN}

\* rows without the larger fetch of the random mode
RowsForNoOverfetch(n, mode) == IF n < 1 THEN 1 ELSE n

\* rows = n if sort_mode != "random" else min(50, max(10, n * 5)); at least 1
RowsFor(n, mode) ==
    LET rows == IF mode # "random" THEN n ELSE Min(50, Max(10, n * 5))
    IN  IF rows < 1 THEN 1 ELSE rows

Filter(name, value) == [name |-> name, value |-> value]

\* filters of the works query
FiltersFor(candidate, df, dt) ==
    <<Filter("type", <<"posted-content">>)>>
    \o (IF candidate.strategy \in {"issn", "title->issn"}
            THEN <<Filter("issn", candidate.id)>>
        ELSE IF candidate.strategy = "prefix" THEN <<Filter("prefix", candidate.id)>>
        ELSE IF candidate.strategy = "member" THEN <<Filter("member", candidate.id)>>
        ELSE <<>>)
    \o (IF df # <<>> THEN <<Filter("from-pub-date", df)>> ELSE <<>>)
    \o (IF dt # <<>> THEN <<Filter("until-pub-date", dt)>> ELSE <<>>)

SortParam(mode) ==
    IF mode = "latest" THEN "sort=published&order=desc"
    ELSE IF mode = "most-cited" THEN "sort=is-referenced-by-count&order=desc"
    ELSE ""

\* items[:n] cut one too long
SliceItemsOneMore(items, n) == Take(items, n + 1)

\* items = items[:n]
SliceItems(items, n) == Take(items, n)

\* resp: the registry's answer if a request is made; shuffled: the order
\* random.shuffle leaves resp.items in.  Yields whether the call raised, the
\* list returned and the requests made.
sample_preprints(candidate, n, mode, df, dt, resp, shuffled) ==
    IF n <= 0 THEN [raised |-> FALSE, items |-> <<>>, calls |-> <<>>]
    ELSE LET req == [query |-> IF candidate.strategy = "container-title"
                               THEN candidate.id ELSE <<>>,
                     filters |-> FiltersFor(candidate, df, dt),
                     rows |-> RowsFor(n, mode),
                     sort |-> SortParam(mode)]
         IN  IF ~resp.ok THEN [raised |-> TRUE, items |-> <<>>, calls |-> <<req>>]
             ELSE LET items == IF mode = "random" /\ resp.items # <<>>
                               THEN shuffled ELSE resp.items
                  IN  [raised |-> FALSE, items |-> SliceItems(items, n),
                       calls |-> <<req>>]

\* one candidate of each strategy
SampleCandidates ==
    {Cand("issn", <<"2692-8205">>, 1, "journal"),
     Cand("title->issn", <<"2692-8205">>, 0, "journalA"),
     Cand("prefix", <<"10.1101">>, 1, "none"),
     Cand("member", <<"246">>, 0, "none"),
     Cand("container-title", <<"bioRxiv">>, 1, "none")}

RequestsFor(server, calls) ==
    [i \in DOMAIN calls |-> [server |-> server, request |-> calls[i]]]

InitSample ==
    /\ ApiIdle
    /\ SessionIdle
    /\ ResolveIdle
    /\ BuildIdle
    /\ sample_n \in SampleNChoices
    /\ sort_mode \in SortModes
    /\ date_from \in DateTexts
    /\ date_to \in DateTexts
    /\ sample_cand \in {<<c>> : c \in SampleCandidates}
    /\ sample_pc = "call"
    /\ works = <<>>
    /\ pool = <<>>
    /\ requests = <<>>

\* one call sample_preprints(candidate, n, sort_mode, date_from, date_to, ...)
SamplePreprintsCall ==
    /\ sample_pc = "call"
    /\ \E resp \in SampleResponses :
       \E shuffled \in Shuffles(resp.items) :
        LET res == sample_preprints(sample_cand[1], sample_n, sort_mode,
                                    norm(date_from), norm(date_to), resp, shuffled)
        IN  /\ sample_pc' = IF res.raised THEN "raised" ELSE "returned"
            /\ works' = res.items
            /\ pool' = IF res.calls # <<>> /\ ~res.raised THEN resp.items ELSE <<>>
            /\ requests' = requests \o RequestsFor(<<>>, res.calls)
    /\ UNCHANGED <<sample_cand, optionVars, apiVars, sessionVars, resolveVars, buildVars>>

NextSample == SamplePreprintsCall

SpecSample == InitSample /\ [][NextSample]_vars

\* C5: sample_preprints never returns more than n records, whatever the
\* sort mode and the registry's answer; for n <= 0 it returns the empty list
\* and has made no request.
C5_AtMostN ==
    sample_pc = "returned" =>
        /\ Len(works) <= Max(sample_n, 0)
        /\ (sample_n <= 0 => works = <<>> /\ requests = <<>>)
        /\ (sample_n > 0 => Len(requests) = 1)

\* C5 witness: in random mode the registry listed more items than asked
\* for and exactly n were returned.
C5_Witness ==
    /\ sample_pc = "returned"
    /\ sort_mode = "random"
    /\ sample_n = MaxN
    /\ Len(works) = MaxN
    /\ works[1] > MaxN
    /\ requests # <<>>
    /\ requests[1].request.rows = 10

\* how often x occurs in the list q
Occurrences(q, x) == Cardinality({i \in DOMAIN q : q[i] = x})

\* C14: a "random" call with n >= 1 that returns has made one request, for
\* min(50, max(10, 5n)) rows; what it returns is taken from the items of
\* that response, none more often than it is listed there, and holds
\* min(n, number of items) records.
C14_RandomFromPool ==
    (sample_pc = "returned" /\ sort_mode = "random" /\ sample_n >= 1) =>
        /\ Len(requests) = 1
        /\ requests[1].request.rows =
              (IF 5 * sample_n < 10 THEN 10
               ELSE IF 5 * sample_n > 50 THEN 50 ELSE 5 * sample_n)
        /\ \A i \in DOMAIN works :
              Occurrences(works, works[i]) <= Occurrences(pool, works[i])
        /\ Len(works) = (IF sample_n < Len(pool) THEN sample_n ELSE Len(pool))

\* C14 witness: a random call for MaxN records got a pool of MaxPool items
\* in one request of more rows than asked for, and returned MaxN of them,
\* the pool's last item first.
C14_Witness ==
    /\ sample_pc = "returned"
    /\ sort_mode = "random"
    /\ sample_n = MaxN
    /\ Len(pool) = MaxPool
    /\ Len(requests) = 1
    /\ requests[1].request.rows > sample_n
    /\ Len(works) = MaxN
    /\ works[1] = pool[MaxPool]

(***************************************************************************)
(* build_zip_crossref and the Build ZIP button                             *)
(***************************************************************************)
\* str.lower on the words used
Lower(w) ==
    CASE w = "bioRxiv" -> "biorxiv"
      [] w = "medRxiv" -> "medrxiv"
      [] w = "arXiv" -> "arxiv"
      [] w = "ChemRxiv" -> "chemrxiv"
      [] w = "Research" -> "research"
      [] w = "Square" -> "square"
      [] OTHER -> w

\* to_slug: the lower-cased words (joined by "-"), or "server"
to_slug(s) ==
    LET w == norm(s)
        low == [i \in DOMAIN w |-> Lower(w[i])]
    IN  IF low = <<>> THEN <<"server">> ELSE low

\* name of an archive entry
Entry(kind, slug, strategy, id, idx) ==
    [kind |-> kind, slug |-> slug, strategy |-> strategy, id |-> id, idx |-> idx]

SummaryEntry == Entry("json/selection_summary.json", <<>>, "", <<>>, 0)

CsvEntry == Entry("servers.csv", <<>>, "", <<>>, 0)

JournalEntry(slug) == Entry("journal.json", slug, "", <<>>, 0)

\* json/<slug>/sample_preprints/doc_<strat>_<cid>_<idx>.json, idx from 1
SampleEntries(slug, strat, cid, ws) ==
    [idx \in DOMAIN ws |-> Entry("sample_preprints", slug, strat, cid, idx)]

\* cand.get("journal_meta") is truthy
HasJournalMeta(cand) == cand.journal_meta \notin {"none", "{}"}

RECURSIVE FlattenCandidates(_)
\* for c_list in cr_candidates.values(): for c in c_list (insertion order:
\* the order of the rows)
FlattenCandidates(rows) ==
    IF rows = <<>> THEN <<>>
    ELSE (IF Head(rows).server_name \in DOMAIN cr_candidates
          THEN cr_candidates[Head(rows).server_name] ELSE <<>>)
         \o FlattenCandidates(Tail(rows))

\* cand_lookup.get((strat, cid)): <<>> for None, else the last candidate
\* stored under the key
cand_lookup(pair) ==
    LET flat == FlattenCandidates(input_rows)
        hits == {i \in DOMAIN flat : <<flat[i].strategy, flat[i].id>> = pair}
    IN  IF hits = {} THEN <<>>
        ELSE <<flat[CHOOSE i \in hits : \A j \in hits : j <= i]>>

\* the "nothing selected" row marked present
NotFoundRowPresent(row) ==
    [server_name |-> row.server_name, presence_in_crossref |-> "yes",
     matched_strategy |-> <<>>, matched_ids |-> <<>>,
     total_results_estimate |-> 0, sample_count_saved |-> 0, notes |-> row.notes]

\* nothing selected -> mark not found
NotFoundRow(row) ==
    [server_name |-> row.server_name, presence_in_crossref |-> "no",
     matched_strategy |-> <<>>, matched_ids |-> <<>>,
     total_results_estimate |-> 0, sample_count_saved |-> 0, notes |-> row.notes]

\* the summary row of a server with a selection
SummaryRow(row) ==
    [server_name |-> row.server_name,
     presence_in_crossref |-> IF total_estimate > 0 THEN "yes" ELSE "no",
     matched_strategy |-> strategies, matched_ids |-> ids,
     total_results_estimate |-> total_estimate,
     sample_count_saved |-> sample_saved, notes |-> row.notes]

BuildRow == input_rows[row_b]

\* chosen_pairs = cr_selected.get(name, [])
chosen_pairs ==
    IF BuildRow.server_name \in DOMAIN cr_selected
    THEN cr_selected[BuildRow.server_name] ELSE <<>>

NewServer ==
    /\ pair_b' = 1
    /\ strategies' = <<>>
    /\ ids' = <<>>
    /\ total_estimate' = 0
    /\ sample_saved' = 0

\* the click; the button is disabled while cr_candidates is empty
BuildBtn ==
    /\ build_pc = "idle"
    /\ DOMAIN cr_candidates # {}
    /\ build_pc' = "loop"
    /\ row_b' = 1
    /\ NewServer
    /\ servers_rows' = <<>>
    /\ zf' = <<SummaryEntry>>
    /\ zf_closed' = FALSE
    /\ zip_bytes' = <<>>
    /\ download_offered' = FALSE
    /\ sample_failed' = FALSE
    /\ requests' = <<>>
    /\ UNCHANGED <<sample_cand, sample_pc, works, pool, optionVars, apiVars, sessionVars,
                   resolveVars>>

\* if not chosen_pairs: ... continue
BuildNothingSelected ==
    /\ build_pc = "loop"
    /\ row_b <= Len(input_rows)
    /\ chosen_pairs = <<>>
    /\ servers_rows' = Append(servers_rows, NotFoundRow(BuildRow))
    /\ row_b' = row_b + 1
    /\ UNCHANGED <<build_pc, pair_b, strategies, ids, total_estimate, sample_saved, zf,
                   zf_closed, zip_bytes, download_offered, sample_failed, sampleVars,
                   optionVars, apiVars, sessionVars, resolveVars>>

\* one iteration of: for strat, cid in chosen_pairs
BuildCandidate ==
    /\ build_pc = "loop"
    /\ row_b <= Len(input_rows)
    /\ chosen_pairs # <<>>
    /\ pair_b <= Len(chosen_pairs)
    /\ LET pair == chosen_pairs[pair_b]
           strat == pair[1]
           cid == pair[2]
           cand == cand_lookup(pair)
           slug == to_slug(BuildRow.server_name)
       IN  /\ strategies' = Append(strategies, strat)
           /\ ids' = Append(ids, cid)
           /\ IF cand = <<>>
              THEN /\ pair_b' = pair_b + 1
                   /\ UNCHANGED <<build_pc, total_estimate, sample_saved, zf,
                                  sample_failed, requests>>
              ELSE LET zfMeta == IF HasJournalMeta(cand[1])
                                 THEN Append(zf, JournalEntry(slug)) ELSE zf
                   IN  /\ total_estimate' = total_estimate + cand[1].estimate_total
                       /\ IF sample_n > 0
                          THEN \E resp \in SampleResponses :
                               \E shuffled \in Shuffles(resp.items) :
                                LET res == sample_preprints(cand[1], sample_n, sort_mode,
                                               norm(date_from), norm(date_to),
                                               resp, shuffled)
                                IN  /\ requests' = requests
                                          \o RequestsFor(BuildRow.server_name, res.calls)
                                    /\ IF res.raised
                                       THEN /\ build_pc' = "raised"
                                            /\ sample_failed' = TRUE
                                            /\ zf' = zfMeta
                                            /\ UNCHANGED <<pair_b, sample_saved>>
                                       ELSE /\ zf' = zfMeta
                                                  \o SampleEntries(slug, strat, cid, res.items)
                                            /\ sample_saved' = sample_saved + Len(res.items)
                                            /\ pair_b' = pair_b + 1
                                            /\ UNCHANGED <<build_pc, sample_failed>>
                          ELSE /\ zf' = zfMeta
                               /\ pair_b' = pair_b + 1
                               /\ UNCHANGED <<build_pc, sample_saved, sample_failed,
                                              requests>>
    /\ UNCHANGED <<row_b, servers_rows, zf_closed, zip_bytes, download_offered,
                   sample_cand, sample_pc, works, pool, optionVars, apiVars, sessionVars,
                   resolveVars>>

\* servers_rows.append({...}) after the loop over chosen_pairs
BuildServerRow ==
    /\ build_pc = "loop"
    /\ row_b <= Len(input_rows)
    /\ chosen_pairs # <<>>
    /\ pair_b > Len(chosen_pairs)
    /\ servers_rows' = Append(servers_rows, SummaryRow(BuildRow))
    /\ row_b' = row_b + 1
    /\ NewServer
    /\ UNCHANGED <<build_pc, zf, zf_closed, zip_bytes, download_offered, sample_failed,
                   sampleVars, optionVars, apiVars, sessionVars, resolveVars>>

\* the except branch offering what was written so far
BuildExceptOffersPartial ==
    /\ build_pc = "raised"
    /\ build_pc' = "failed"
    /\ zip_bytes' = zf
    /\ download_offered' = TRUE
    /\ UNCHANGED <<row_b, pair_b, strategies, ids, total_estimate, sample_saved,
                   servers_rows, zf, zf_closed, sample_failed, sampleVars, optionVars,
                   apiVars, sessionVars, resolveVars>>

\* finalize CSV, close, return the bytes; the handler shows the preview and
\* the download button
BuildFinalize ==
    /\ build_pc = "loop"
    /\ row_b > Len(input_rows)
    /\ zf' = Append(zf, CsvEntry)
    /\ zf_closed' = TRUE
    /\ zip_bytes' = Append(zf, CsvEntry)
    /\ download_offered' = TRUE
    /\ build_pc' = "returned"
    /\ UNCHANGED <<row_b, pair_b, strategies, ids, total_estimate, sample_saved,
                   servers_rows, sample_failed, sampleVars, optionVars, apiVars,
                   sessionVars, resolveVars>>

\* except Exception as e: st.error("Build failed")
BuildExcept ==
    /\ build_pc = "raised"
    /\ build_pc' = "failed"
    /\ UNCHANGED <<row_b, pair_b, strategies, ids, total_estimate, sample_saved,
                   servers_rows, zf, zf_closed, zip_bytes, download_offered,
                   sample_failed, sampleVars, optionVars, apiVars, sessionVars,
                   resolveVars>>

(***************************************************************************)
(* The session states a build can start from: what Resolve leaves in       *)
(* cr_candidates, and any selection among those candidates.                *)
(***************************************************************************)
RECURSIVE FramesAfter(_, _, _)
\* the (seen, candidates) a resolver call can hold after its first k lookups
FramesAfter(lookups, k, pt) ==
    IF k = 0 THEN {[seen |-> {}, candidates |-> <<>>]}
    ELSE {add_all(fr, res.out) :
            fr \in FramesAfter(lookups, k - 1, pt),
            res \in {o \in LookupOutcomes(lookups[k], pt) : ~o.raised}}

\* the lists the Resolve handler can store for a row: what the resolver
\* returns, or [] when it raised
ResolveOutcomes(row, pt) ==
    LET lookups == Lookups(row, pt)
    IN  {fr.candidates : fr \in FramesAfter(lookups, Len(lookups), pt)}
        \cup (IF \E k \in DOMAIN lookups :
                    \E o \in LookupOutcomes(lookups[k], pt) : o.raised
              THEN {<<>>} ELSE {})

RECURSIVE CandidateDicts(_, _)
CandidateDicts(rows, pt) ==
    IF rows = <<>> THEN {EmptyDict}
    ELSE {Put(d, Head(rows).server_name, v) :
            d \in CandidateDicts(Tail(rows), pt),
            v \in ResolveOutcomes(Head(rows), pt)}

RECURSIVE SubSeqs(_)
SubSeqs(q) ==
    IF q = <<>> THEN {<<>>}
    ELSE LET rest == SubSeqs(Tail(q))
         IN  rest \cup {<<Head(q)>> \o t : t \in rest}

RECURSIVE SelectionDicts(_, _)
\* the multiselect keeps pairs of the server's own candidates
SelectionDicts(names, cands) ==
    IF names = {} THEN {EmptyDict}
    ELSE LET n == CHOOSE x \in names : TRUE
         IN  {Put(d, n, v) : d \in SelectionDicts(names \ {n}, cands),
                             v \in SubSeqs(Keys(cands[n]))}

\* rows resolved, and rows added to the input after Resolve
BuildInputs ==
    {<<RowBio, RowMed>>, <<RowPasted, RowBlankName>>, <<RowIssns>>, <<RowBio, RowBioLower>>}

\* sampling mode and date boxes: each mode, each box empty and filled
BuildOptions ==
    {[sort_mode |-> "latest", date_from |-> <<>>, date_to |-> <<>>],
     [sort_mode |-> "most-cited", date_from |-> <<>>, date_to |-> <<" ", "2020-01-01">>],
     [sort_mode |-> "random", date_from |-> <<"2020-01-01">>, date_to |-> <<>>]}

ResolvedParts(rows) == {SubSeq(rows, 1, k) : k \in 1..Len(rows)}

InitBuild ==
    /\ ApiIdle
    /\ ResolveIdle
    /\ SampleIdle
    /\ BuildIdle
    /\ per_title = 0
    /\ sel_widgets = EmptyDict
    /\ ui_last = "none"
    /\ input_rows \in BuildInputs
    /\ cr_candidates \in UNION {CandidateDicts(part, pt) :
                                  part \in ResolvedParts(input_rows),
                                  pt \in 0..MaxPerTitle}
    /\ cr_selected \in SelectionDicts(DOMAIN cr_candidates, cr_candidates)
    /\ sample_n \in 0..MaxN
    /\ \E o \in BuildOptions :
        /\ sort_mode = o.sort_mode
        /\ date_from = o.date_from
        /\ date_to = o.date_to

NextBuild ==
    \/ BuildBtn
    \/ BuildNothingSelected
    \/ BuildCandidate
    \/ BuildServerRow
    \/ BuildFinalize
    \/ BuildExcept

SpecBuild == InitBuild /\ [][NextBuild]_vars

(***************************************************************************)
(* Claims on the build                                                     *)
(***************************************************************************)
SelectionOf(name) == IF name \in DOMAIN cr_selected THEN cr_selected[name] ELSE <<>>

CandidatesOf(name) == IF name \in DOMAIN cr_candidates THEN cr_candidates[name] ELSE <<>>

\* some candidate of the server itself is selected and has estimate_total > 0
SelectedTotalPositive(name) ==
    \E i \in DOMAIN CandidatesOf(name) :
        /\ CandidatesOf(name)[i].estimate_total > 0
        /\ \E j \in DOMAIN SelectionOf(name) :
            SelectionOf(name)[j] = Keys(CandidatesOf(name))[i]

RequestsOf(name) == {i \in DOMAIN requests : requests[i].server = name}

\* C3 (as claimed): a sample_preprints call that raises does not stop the
\* build: the build is still running or has returned its archive.
C3_SampleFailureIsLocal ==
    sample_failed => build_pc \in {"loop", "returned"}

\* C6 (as claimed): in every summary row, presence is "yes" exactly when one
\* of the server's own selected candidates has estimate_total > 0.
C6_PresenceIffSelectedTotal ==
    \A i \in DOMAIN servers_rows :
        (servers_rows[i].presence_in_crossref = "yes")
            <=> SelectedTotalPositive(servers_rows[i].server_name)

\* C11 (as claimed): a build writes at most one journal.json entry for a
\* server (taken over the servers whose slug no other input server shares).
C11_JournalOncePerServer ==
    \A i \in DOMAIN input_rows :
        (\A j \in DOMAIN input_rows :
            j # i => to_slug(input_rows[j].server_name) # to_slug(input_rows[i].server_name))
        => Cardinality({k \in DOMAIN zf :
                zf[k] = JournalEntry(to_slug(input_rows[i].server_name))}) <= 1

\* C17 (as claimed): within one build no two sample records are written to
\* the same archive path.
C17_SamplePathsUnique ==
    \A i, j \in DOMAIN zf :
        (zf[i].kind = "sample_preprints" /\ zf[i] = zf[j]) => i = j

\* C7: the summary row of a server whose selection is empty or missing says
\* presence "no", no strategy, no id, total 0 and 0 samples; no sampler
\* request is made for such a server; and a build that returns has written
\* one row per input server, in input order.
C7_NothingSelectedRow ==
    /\ Len(servers_rows) <= Len(input_rows)
    /\ (build_pc = "returned" => Len(servers_rows) = Len(input_rows))
    /\ \A i \in DOMAIN input_rows :
        SelectionOf(input_rows[i].server_name) = <<>> =>
            /\ RequestsOf(input_rows[i].server_name) = {}
            /\ i \in DOMAIN servers_rows =>
                /\ servers_rows[i].server_name = input_rows[i].server_name
                /\ servers_rows[i].presence_in_crossref = "no"
                /\ servers_rows[i].matched_strategy = <<>>
                /\ servers_rows[i].matched_ids = <<>>
                /\ servers_rows[i].total_results_estimate = 0
                /\ servers_rows[i].sample_count_saved = 0

\* C7 witness: a returned build in which the second server had nothing
\* selected and got its "no" row while samples were fetched and saved for
\* the first.
C7_Witness ==
    /\ build_pc = "returned"
    /\ Len(input_rows) = 2
    /\ SelectionOf(input_rows[2].server_name) = <<>>
    /\ servers_rows[2].presence_in_crossref = "no"
    /\ servers_rows[1].sample_count_saved > 0
    /\ RequestsOf(input_rows[1].server_name) # {}

\* C10: archive bytes reach the caller, and the download is offered, only
\* when build_zip_crossref has returned: every input server has its row,
\* servers.csv is the last entry, the archive is closed and the bytes are
\* the whole archive.  When the build raised, no bytes are handed over and
\* no download is offered.
C10_ArchiveOnlyWhenComplete ==
    /\ (zip_bytes # <<>> \/ download_offered) =>
        /\ build_pc = "returned"
        /\ Len(servers_rows) = Len(input_rows)
        /\ zf_closed
        /\ zip_bytes = zf
        /\ Last(zf) = CsvEntry
    /\ build_pc = "returned" => download_offered /\ zip_bytes # <<>>
    /\ build_pc \in {"raised", "failed"} => zip_bytes = <<>> /\ ~download_offered

\* C10 witness: the build failed after entries had been written to the
\* archive; nothing was handed over and no download is offered.
C10_Witness ==
    /\ build_pc = "failed"
    /\ Len(zf) > 1
    /\ servers_rows # <<>>
    /\ zip_bytes = <<>>
    /\ ~download_offered

(***************************************************************************)
(* The candidate chooser.  Every UI action is one run of the script: the   *)
(* handler of the button pressed, if any, then the chooser from top to     *)
(* bottom.  A multiselect keeps its value from one run to the next while   *)
(* it is rendered with the same key, options and default; when options or  *)
(* default differ from the last run, the element is either taken as a new  *)
(* one (value = default) or keeps what it held, depending on how the UI    *)
(* library identifies elements: both outcomes are allowed.                 *)
(***************************************************************************)
\* lab = f"{label} - total~{estimate_total} - [{strategy}]"; the label text
\* is made of the id and of a title taken from the venue metadata
Label(c) ==
    [strategy |-> c.strategy, id |-> c.id, total |-> c.estimate_total,
     text |-> c.journal_meta]

labels(cands) == [i \in DOMAIN cands |-> Label(cands[i])]

\* value_map[lab] = (strategy, id)
value_map(lab) == <<lab.strategy, lab.id>>

\* cr_selected.get(name, [])
current_pairs(sel, name) == IF name \in DOMAIN sel THEN sel[name] ELSE <<>>

\* the labels whose pair is among the current picks
current_labels(cands, pairs) ==
    SelectSeq(labels(cands), LAMBDA lab : value_map(lab) \in Range(pairs))

\* [value_map[lbl] for lbl in chosen_labels if lbl in value_map]
PairsOf(chosen_labels) == [i \in DOMAIN chosen_labels |-> value_map(chosen_labels[i])]

\* no multiselect was changed in this run
NoChange == <<>>

\* the operator changed the multiselect of one server on the page
Change(name, value) == <<[name |-> name, value |-> value]>>

\* the values st.multiselect(options, default, key="sel_<name>") may return;
\* old: the multiselects of the previous run
Multiselect(old, name, options, default, change) ==
    IF name \notin DOMAIN old THEN {default}
    ELSE LET w == old[name]
             same == w.options = options /\ w.default = default
         IN  IF change # NoChange /\ change[1].name = name
             THEN {change[1].value} \cup (IF same THEN {} ELSE {default})
             ELSE IF same THEN {w.value}
             ELSE {default, SelectSeq(options, LAMBDA lab : lab \in Range(w.value))}

RECURSIVE ChooserRows(_, _, _, _, _, _)
\* for row in input_rows: ... ; yields every [selected, widgets] the loop can
\* end with.  sel: cr_selected; shown: the multiselects rendered so far
ChooserRows(rows, cands, sel, old, shown, change) ==
    IF rows = <<>> THEN {[selected |-> sel, widgets |-> shown]}
    ELSE LET name == Head(rows).server_name
             cs == IF name \in DOMAIN cands THEN cands[name] ELSE <<>>
         IN  IF cs = <<>> THEN ChooserRows(Tail(rows), cands, sel, old, shown, change)
             ELSE LET options == labels(cs)
                      default == current_labels(cs, current_pairs(sel, name))
                  IN  UNION {ChooserRows(Tail(rows), cands,
                                 Put(sel, name, PairsOf(v)), old,
                                 Put(shown, name, [options |-> options,
                                                   default |-> default, value |-> v]),
                                 change) :
                             v \in Multiselect(old, name, options, default, change)}

\* the chooser, rendered when cr_candidates is not empty
Chooser(rows, cands, sel, old, change) ==
    IF DOMAIN cands = {} THEN {[selected |-> sel, widgets |-> EmptyDict]}
    ELSE ChooserRows(rows, cands, sel, old, EmptyDict, change)

\* multiselects a run that st.rerun() cut short leaves behind: those it
\* rendered, with or without those it did not reach
WidgetsAfterRerun(old, shown) ==
    {shown, [n \in DOMAIN old \cup DOMAIN shown |->
                IF n \in DOMAIN shown THEN shown[n] ELSE old[n]]}

AllPairs(cands) == [i \in DOMAIN cands |-> <<cands[i].strategy, cands[i].id>>]

\* rows of the input at which the chooser shows a multiselect
RowsShown == {i \in DOMAIN input_rows :
                /\ input_rows[i].server_name \in DOMAIN cr_candidates
                /\ cr_candidates[input_rows[i].server_name] # <<>>}

UiStore(res, action) ==
    /\ cr_selected' = res.selected
    /\ sel_widgets' = res.widgets
    /\ ui_last' = action

\* the Resolve click: the handler resolves every row and empties the
\* selections, then the chooser is rendered
UiResolve ==
    /\ input_rows # <<>>
    /\ \E cands \in CandidateDicts(input_rows, per_title) :
        /\ cr_candidates' = cands
        /\ \E res \in Chooser(input_rows, cands, [n \in DOMAIN cands |-> <<>>],
                              sel_widgets, NoChange) :
            UiStore(res, "resolve")
    /\ UNCHANGED <<input_rows, per_title, apiVars, resolveVars, optionVars, sampleVars,
                   buildVars>>

\* the operator changes the multiselect of one server
UiMultiselect ==
    /\ \E i \in RowsShown :
        LET name == input_rows[i].server_name
        IN  /\ name \in DOMAIN sel_widgets
            /\ \E v \in SubSeqs(sel_widgets[name].options) \ {sel_widgets[name].value} :
               \E res \in Chooser(input_rows, cr_candidates, cr_selected, sel_widgets,
                                  Change(name, v)) :
                UiStore(res, "multiselect")
    /\ UNCHANGED <<input_rows, per_title, cr_candidates, apiVars, resolveVars, optionVars,
                   sampleVars, buildVars>>

\* "Select all" of one server: the rows above it are rendered, its picks are
\* set to all its candidates, st.rerun() starts the script again
UiSelectAll ==
    /\ \E i \in RowsShown :
        LET name == input_rows[i].server_name
        IN  \E cut \in Chooser(SubSeq(input_rows, 1, i), cr_candidates, cr_selected,
                               sel_widgets, NoChange) :
            \E kept \in WidgetsAfterRerun(sel_widgets, cut.widgets) :
            \E res \in Chooser(input_rows, cr_candidates,
                               Put(cut.selected, name, AllPairs(cr_candidates[name])),
                               kept, NoChange) :
                UiStore(res, "select-all")
    /\ UNCHANGED <<input_rows, per_title, cr_candidates, apiVars, resolveVars, optionVars,
                   sampleVars, buildVars>>

\* "Select ALL candidates for ALL servers", then the chooser
UiSelectAllGlobal ==
    /\ DOMAIN cr_candidates # {}
    /\ LET all == [n \in DOMAIN cr_selected \cup DOMAIN cr_candidates |->
                     IF n \in DOMAIN cr_candidates THEN AllPairs(cr_candidates[n])
                     ELSE cr_selected[n]]
       IN  \E res \in Chooser(input_rows, cr_candidates, all, sel_widgets, NoChange) :
            UiStore(res, "select-all-global")
    /\ UNCHANGED <<input_rows, per_title, cr_candidates, apiVars, resolveVars, optionVars,
                   sampleVars, buildVars>>

\* the rows on the page
UiInputs == {<<RowBio, RowMed>>, <<RowPasted, RowBlankName>>}

InitUi ==
    /\ ApiIdle
    /\ ResolveIdle
    /\ OptionsIdle
    /\ SampleIdle
    /\ BuildIdle
    /\ input_rows \in UiInputs
    /\ per_title \in 0..MaxPerTitle
    /\ cr_candidates = EmptyDict
    /\ cr_selected = EmptyDict
    /\ sel_widgets = EmptyDict
    /\ ui_last = "none"

NextUi == UiResolve \/ UiMultiselect \/ UiSelectAll \/ UiSelectAllGlobal

SpecUi == InitUi /\ [][NextUi]_vars

(***************************************************************************)
(* Claims on the chooser                                                   *)
(***************************************************************************)
\* every stored pair is the (strategy, id) of a candidate of the same server
SelectionWithinCandidates ==
    \A n \in DOMAIN cr_selected :
        \A k \in DOMAIN cr_selected[n] :
            \E i \in DOMAIN CandidatesOf(n) :
                cr_selected[n][k] = <<CandidatesOf(n)[i].strategy, CandidatesOf(n)[i].id>>

\* C16 (as claimed): after any sequence of the UI actions, every stored pair
\* is the (strategy, id) of a candidate of the same server, and right after
\* a Resolve action every server's selection is empty.
C16_SelectionSoundAndReset ==
    /\ SelectionWithinCandidates
    /\ (ui_last = "resolve" => \A n \in DOMAIN cr_selected : cr_selected[n] = <<>>)

\* C16, first half: every stored pair is the (strategy, id) of a candidate
\* of the same server.
C16_SelectionWithinCandidates == SelectionWithinCandidates

====
